---- MODULE Spec2Model ----
(***************************************************************************)
(* utf8_slice: character-indexed slicing of UTF-8 strings (src/src/lib.rs). *)
(*                                                                         *)
(* A text is held twice: `chars`, the sequence of Unicode scalar values    *)
(* the caller has in mind, and `s`, its UTF-8 encoding, which is the only  *)
(* thing the library sees.  The library functions are operators over the   *)
(* byte sequence; they find character boundaries by decoding lead bytes,   *)
(* as str::char_indices does.  A returned &str is a record: a sub-range    *)
(* [lo, hi) of s, the static literal "", or a panic.  Every result also    *)
(* carries `decoded`, the number of characters the call decoded.           *)
(***************************************************************************)
EXTENDS Integers, Sequences, FiniteSets, TLC

VARIABLES chars, s, overflow_checks, op, begin, end, ret

vars == <<chars, s, overflow_checks, op, begin, end, ret>>

\* Longest text drawn from Alphabet.
MaxLen == 3

\* How far past the character length the small indices go.
Slack == 1

\* usize::MAX, with usize modelled at 16 bits, the narrowest width Rust allows.
UsizeMax == 65535

Min(a, b) == IF a <= b THEN a ELSE b

---------------------------------------------------------------------------
\* UTF-8

\* The bytes of one scalar value.
Utf8Encode(c) ==
    IF c < 128 THEN <<c>>
    ELSE IF c < 2048 THEN <<192 + (c \div 64), 128 + (c % 64)>>
    ELSE IF c < 65536 THEN
        <<224 + (c \div 4096), 128 + ((c \div 64) % 64), 128 + (c % 64)>>
    ELSE <<240 + (c \div 262144), 128 + ((c \div 4096) % 64),
           128 + ((c \div 64) % 64), 128 + (c % 64)>>

RECURSIVE Encode(_)
\* The bytes of a &str holding the scalar values cs.
Encode(cs) == IF cs = <<>> THEN <<>> ELSE Utf8Encode(Head(cs)) \o Encode(Tail(cs))

\* Faulty variant: every byte taken for a character, as byte indexing would.
Utf8CharWidthByte(b) == 1

\* Width of the character whose lead byte is b (what the decoder reads).
Utf8CharWidth(b) ==
    IF b < 128 THEN 1
    ELSE IF b < 224 THEN 2
    ELSE IF b < 240 THEN 3
    ELSE 4

\* str::is_char_boundary: 0, the length, or a byte that is no continuation byte.
IsCharBoundary(str, i) ==
    \/ i = 0
    \/ i = Len(str)
    \/ i < Len(str) /\ (str[i + 1] < 128 \/ str[i + 1] >= 192)

---------------------------------------------------------------------------
\* Results
\*
\* kind: "view" is &s[lo..hi], "literal" is the static "", "usize" is a count
\* in val, "panic" is an unwinding call.  decoded counts the characters the
\* call decoded.  overflowed: a usize operation left the range (whatever the
\* build then does).  missed: the lookup of the end position found nothing.

View(lo, hi, n) ==
    [kind |-> "view", lo |-> lo, hi |-> hi, val |-> 0, decoded |-> n,
     overflowed |-> FALSE, missed |-> FALSE]
Literal(n) ==
    [kind |-> "literal", lo |-> 0, hi |-> 0, val |-> 0, decoded |-> n,
     overflowed |-> FALSE, missed |-> FALSE]
Panic(n) ==
    [kind |-> "panic", lo |-> 0, hi |-> 0, val |-> 0, decoded |-> n,
     overflowed |-> FALSE, missed |-> FALSE]
Count(v, n) ==
    [kind |-> "usize", lo |-> 0, hi |-> 0, val |-> v, decoded |-> n,
     overflowed |-> FALSE, missed |-> FALSE]
NoCall ==
    [kind |-> "none", lo |-> 0, hi |-> 0, val |-> 0, decoded |-> 0,
     overflowed |-> FALSE, missed |-> FALSE]

\* &str[lo..hi]: panics unless lo <= hi <= len on character boundaries.
Index(str, lo, hi, n) ==
    IF lo <= hi /\ hi <= Len(str) /\ IsCharBoundary(str, lo) /\ IsCharBoundary(str, hi)
    THEN View(lo, hi, n)
    ELSE Panic(n)

\* usize subtraction and addition: a panic with overflow checks, a wrap without.
USub(a, b) == [val |-> (a - b) % (UsizeMax + 1), overflow |-> a < b]
UAdd(a, b) == [val |-> (a + b) % (UsizeMax + 1), overflow |-> a + b > UsizeMax]

---------------------------------------------------------------------------
\* The library

\* Faulty variant: the byte length, as str::len gives it.
CharsCountBytes(str, pos) == Len(str) - pos

RECURSIVE CharsCount(_, _)
\* str.chars().count() from byte offset pos: one step per decoded character.
CharsCount(str, pos) ==
    IF pos >= Len(str) THEN 0
    ELSE 1 + CharsCount(str, pos + Utf8CharWidth(str[pos + 1]))

len(str) == Count(CharsCount(str, 0), CharsCount(str, 0))

RECURSIVE NthFrom(_, _, _)
\* The iterator str.char_indices() standing at byte offset pos, asked for nth(n).
NthFrom(str, pos, n) ==
    IF pos >= Len(str) THEN [found |-> FALSE, pos |-> 0, decoded |-> 0]
    ELSE IF n = 0 THEN [found |-> TRUE, pos |-> pos, decoded |-> 1]
    ELSE LET r == NthFrom(str, pos + Utf8CharWidth(str[pos + 1]), n - 1)
         IN  [r EXCEPT !.decoded = @ + 1]

\* Faulty variant: nth taken to count from one.
CharIndicesNthOneBased(str, n) == NthFrom(str, 0, n + 1)

CharIndicesNth(str, n) == NthFrom(str, 0, n)

\* Faulty variant: the guard against an inverted range left out.
InvertedNever(b, e) == FALSE

\* `if end < begin`
Inverted(b, e) == e < b

\* Faulty variant: > for >=.
PastEndStrict(e, total) == e > total

\* `if end >= len(s)`
PastEnd(e, total) == e >= total

\* Faulty variant: the operands swapped.
RelativeIndexSwapped(b, e) == USub(b, e)

\* `end - begin`
RelativeIndex(b, e) == USub(e, b)

\* Faulty variant: the offset within the suffix taken for an offset within s.
EndOffsetRelative(start_pos, end_pos) == [val |-> end_pos, overflow |-> FALSE]

\* `start_pos + end_pos`
EndOffset(start_pos, end_pos) == UAdd(start_pos, end_pos)

\* `.nth(end - begin).map(|(end_pos, _)| &s[start_pos..start_pos + end_pos])`
\* on s[start_pos..], reached with begin <= end and end short of the length.
SliceTo(str, b, e, start_pos, n1) ==
    LET d == RelativeIndex(b, e)
        suffix == SubSeq(str, start_pos + 1, Len(str))
        second == CharIndicesNth(suffix, d.val)
        sum == EndOffset(start_pos, second.pos)
        n2 == n1 + second.decoded
    IN  IF ~IsCharBoundary(str, start_pos) THEN Panic(n1)
        ELSE IF d.overflow /\ overflow_checks
            THEN [Panic(n1) EXCEPT !.overflowed = TRUE]
        ELSE IF ~second.found
            THEN [Literal(n2) EXCEPT !.overflowed = d.overflow, !.missed = TRUE]
        ELSE IF sum.overflow /\ overflow_checks
            THEN [Panic(n2) EXCEPT !.overflowed = TRUE]
        ELSE [Index(str, start_pos, sum.val, n2)
                EXCEPT !.overflowed = d.overflow \/ sum.overflow]

\* The closure of slice, given Some((start_pos, _)) by the first lookup.
SliceFrom(str, b, e, start_pos, n0) ==
    LET total == len(str)
        n1 == n0 + total.decoded
    IN  IF PastEnd(e, total.val) THEN Index(str, start_pos, Len(str), n1)
        ELSE SliceTo(str, b, e, start_pos, n1)

slice(str, b, e) ==
    IF Inverted(b, e) THEN Literal(0)
    ELSE LET first == CharIndicesNth(str, b)
         IN  IF ~first.found THEN Literal(first.decoded)
             ELSE SliceFrom(str, b, e, first.pos, first.decoded)

\* Faulty variant: the last character left out.
FromShort(str, b) ==
    LET total == len(str)
        r == slice(str, b, total.val - 1)
    IN  [r EXCEPT !.decoded = @ + total.decoded]

from(str, b) ==
    LET total == len(str)
        r == slice(str, b, total.val)
    IN  [r EXCEPT !.decoded = @ + total.decoded]

till(str, e) == slice(str, 0, e)

---------------------------------------------------------------------------
\* Inputs

Alphabet == {97, 837, 2200, 128640}

BoundedTexts == UNION {[1..n -> Alphabet] : n \in 0..MaxLen}

\* "The <rocket> goes to the <moon>!" of the doc examples.
DocText == <<84, 104, 101, 32, 128640, 32, 103, 111, 101, 115, 32, 116, 111, 32,
             116, 104, 101, 32, 127761, 33>>

\* "\u{345}ab\u{898}xyz" of the unit tests.
TestText == <<837, 97, 98, 2200, 120, 121, 122>>

\* man, zero width joiner, rocket: one emoji, three scalar values.
EmojiText == <<128104, 8205, 128640>>

AsciiText == <<97, 98, 99, 100, 101, 102>>

Texts == BoundedTexts \cup {DocText, TestText, EmojiText, AsciiText}

\* The indices tried on a text: all up to a little past its length, and the
\* top of the usize range.
Indices == (0..(Len(chars) + Slack)) \cup {UsizeMax - 1, UsizeMax}

---------------------------------------------------------------------------
\* Calls

Init ==
    /\ chars \in Texts
    /\ s = Encode(chars)
    /\ overflow_checks \in BOOLEAN
    /\ op = "none"
    /\ begin = 0
    /\ end = 0
    /\ ret = NoCall

CallSlice ==
    /\ op = "none"
    /\ \E b \in Indices, e \in Indices :
        /\ begin' = b
        /\ end' = e
        /\ ret' = slice(s, b, e)
    /\ op' = "slice"
    /\ UNCHANGED <<chars, s, overflow_checks>>

CallFrom ==
    /\ op = "none"
    /\ \E b \in Indices :
        /\ begin' = b
        /\ ret' = from(s, b)
    /\ op' = "from"
    /\ UNCHANGED <<chars, s, overflow_checks, end>>

CallTill ==
    /\ op = "none"
    /\ \E e \in Indices :
        /\ end' = e
        /\ ret' = till(s, e)
    /\ op' = "till"
    /\ UNCHANGED <<chars, s, overflow_checks, begin>>

CallLen ==
    /\ op = "none"
    /\ ret' = len(s)
    /\ op' = "len"
    /\ UNCHANGED <<chars, s, overflow_checks, begin, end>>

Next == CallSlice \/ CallFrom \/ CallTill \/ CallLen

Spec == Init /\ [][Next]_vars

TypeOK ==
    /\ op \in {"none", "slice", "from", "till", "len"}
    /\ ret.kind \in {"none", "view", "literal", "usize", "panic"}
    /\ overflow_checks \in BOOLEAN

---------------------------------------------------------------------------
\* What a call returned, read against the caller's view of the text

\* The call came back with a &str.
Returned(r) == r.kind \in {"view", "literal"}

\* The bytes of the returned &str.
Bytes(r) == IF r.kind = "view" THEN SubSeq(s, r.lo + 1, r.hi) ELSE <<>>

IsEmpty(r) == Returned(r) /\ Bytes(r) = <<>>

\* The same &str: the same byte range of s, or both the empty literal.
SameStr(r1, r2) == r1.kind = r2.kind /\ r1.lo = r2.lo /\ r1.hi = r2.hi

\* The byte offsets at which a character of chars starts, and the end.
Boundaries == {Len(Encode(SubSeq(chars, 1, k))) : k \in 0..Len(chars)}

IsAscii == \A i \in 1..Len(chars) : chars[i] < 128

Slicing == op \in {"slice", "from", "till"}

---------------------------------------------------------------------------
\* C1: for begin <= end, slice returns exactly the characters at positions
\* begin <= p < min(end, length), in order and with their bytes; on the test
\* text slice(1,4) is "ab" U+0898 and slice(1,7) is "ab" U+0898 "xyz".
C1_SliceIsCharRange ==
    (op = "slice" /\ begin <= end) =>
        /\ Returned(ret)
        /\ Bytes(ret) = Encode(SubSeq(chars, begin + 1, Min(end, Len(chars))))
        /\ (chars = TestText /\ begin = 1 /\ end = 4) =>
              Bytes(ret) = Encode(<<97, 98, 2200>>)
        /\ (chars = TestText /\ begin = 1 /\ end = 7) =>
              Bytes(ret) = Encode(<<97, 98, 2200, 120, 121, 122>>)

C1_Witness ==
    /\ op = "slice" /\ chars = TestText /\ begin = 1 /\ end = 4
    /\ ret.kind = "view" /\ ret.lo = 2 /\ ret.hi = 7

\* C2: the view returned by slice, from and till is a byte range [lo, hi) of
\* the input with 0 <= lo <= hi <= byte length, both ends on character
\* boundaries (the static "" counts as the empty range).
C2_ViewOnBoundaries ==
    Slicing =>
        /\ Returned(ret)
        /\ 0 <= ret.lo /\ ret.lo <= ret.hi /\ ret.hi <= Len(s)
        /\ ret.lo \in Boundaries
        /\ ret.hi \in Boundaries

C2_Witness ==
    /\ op = "slice" /\ ret.kind = "view"
    /\ 0 < ret.lo /\ ret.lo < ret.hi /\ ret.hi < Len(s)
    /\ Len(s) > Len(chars)
    /\ ret.hi - ret.lo > Min(end, Len(chars)) - begin

\* C3: for 0 <= k <= length, the bytes of till(text, k) followed by the bytes
\* of from(text, k) are the text.
C3_TillThenFrom ==
    (op = "till" /\ end <= Len(chars)) =>
        /\ Returned(ret)
        /\ Returned(from(s, end))
        /\ Bytes(ret) \o Bytes(from(s, end)) = s

C3_Witness ==
    /\ op = "till" /\ 0 < end /\ end < Len(chars)
    /\ Len(s) > Len(chars)
    /\ Bytes(ret) # <<>> /\ Bytes(from(s, end)) # <<>>
    /\ Bytes(ret) \o Bytes(from(s, end)) = s

\* C4: for end >= length, slice(text, begin, end) is the same view as
\* from(text, begin).
C4_ClampToFrom ==
    (op = "slice" /\ end >= Len(chars)) => SameStr(ret, from(s, begin))

C4_Witness ==
    /\ op = "slice" /\ end > Len(chars) /\ 0 < begin /\ begin < Len(chars)
    /\ ret.kind = "view" /\ ret.lo > 0 /\ ret.hi = Len(s)
    /\ SameStr(ret, from(s, begin))

\* C5: on ASCII-only text, for 0 <= i <= j <= length, slice(text, i, j) is
\* the byte range text[i..j].
C5_AsciiByteSlice ==
    (op = "slice" /\ IsAscii /\ begin <= end /\ end <= Len(chars)) =>
        /\ Returned(ret)
        /\ Bytes(ret) = SubSeq(s, begin + 1, end)

C5_Witness ==
    /\ op = "slice" /\ chars = AsciiText /\ begin = 2 /\ end = 4
    /\ Bytes(ret) = <<99, 100>>

\* C6: degenerate inputs give an empty view, never an error: slice with
\* begin > end or begin >= length, from with begin >= length, till(text, 0),
\* and every slice, from and till on the empty text.
C6_DegenerateIsEmpty ==
    /\ (op = "slice" /\ (begin > end \/ begin >= Len(chars))) => IsEmpty(ret)
    /\ (op = "from" /\ begin >= Len(chars)) => IsEmpty(ret)
    /\ (op = "till" /\ end = 0) => IsEmpty(ret)
    /\ (Slicing /\ chars = <<>>) => IsEmpty(ret)

C6_Witness ==
    /\ op = "slice" /\ end < begin /\ begin < Len(chars)
    /\ overflow_checks
    /\ IsEmpty(ret)

\* C7: len(text) is the number of scalar values: 0 for the empty text, 3 for
\* man + zero width joiner + rocket; it is the least n with from(text, n) empty.
C7_LenCountsScalars ==
    op = "len" =>
        /\ ret.kind = "usize"
        /\ ret.val = Len(chars)
        /\ chars = <<>> => ret.val = 0
        /\ chars = EmojiText => ret.val = 3
        /\ IsEmpty(from(s, ret.val))
        /\ \A n \in 0..(ret.val - 1) : ~IsEmpty(from(s, n))

C7_Witness ==
    /\ op = "len" /\ chars = EmojiText
    /\ ret.val = 3 /\ Len(s) = 11

\* C8: on the doc text, till(s, 4) is "The " followed by the rocket.
C8_DocTillFour ==
    (op = "till" /\ chars = DocText /\ end = 4) =>
        Bytes(ret) = Encode(<<84, 104, 101, 32, 128640>>)

\* C8, as the code has it: on the doc text till(s, 4) is "The ", and it is
\* till(s, 5) that ends with the rocket.
C8_DocTillExclusive ==
    (op = "till" /\ chars = DocText) =>
        /\ end = 4 => Bytes(ret) = Encode(<<84, 104, 101, 32>>)
        /\ end = 5 => Bytes(ret) = Encode(<<84, 104, 101, 32, 128640>>)

\* C9: slice, from and till never panic, whatever begin and end are in the
\* usize range: no subtraction underflows, no sum overflows or passes the
\* byte length, and the lookup of end - begin in the suffix never misses.
C9_NoPanic ==
    Slicing =>
        /\ ret.kind # "panic"
        /\ ~ret.overflowed
        /\ ~ret.missed
        /\ ret.hi <= Len(s)

C9_Witness ==
    /\ op = "slice" /\ overflow_checks
    /\ 0 < begin /\ begin < end /\ end < Len(chars)
    /\ ret.kind = "view" /\ ret.hi < Len(s)

\* C9, the ends of the range: begin and end at usize::MAX.
C9_WitnessMax ==
    /\ op = "slice" /\ begin = 0 /\ end = UsizeMax /\ chars # <<>>
    /\ ret.kind = "view" /\ ret.hi = Len(s)

\* C10: with end < length, slice decodes no more characters than the two
\* walks to begin and from begin to end need, whatever the length.
C10_DecodedBoundedByEnd ==
    (op = "slice" /\ begin <= end /\ end < Len(chars)) =>
        ret.decoded <= 2 * (end + 1)

\* C10, as the code has it: slice decodes the walk to begin, the whole text for len(s), and
\* the walk from begin to end.
C10_DecodedExact ==
    (op = "slice" /\ begin <= end /\ end < Len(chars)) =>
        ret.decoded = (begin + 1) + Len(chars) + (end - begin + 1)

====
